---- MODULE Spec2Model ----
(***************************************************************************)
(* Model of conversational_analysis_editor.py: the Editor session object,  *)
(* its reflow engine (wrap_text / reflow), the cursor model, the edit      *)
(* operations dispatched by process_key, the undo stack and the            *)
(* tab-separated load / save of the record list.                           *)
(*                                                                         *)
(* Strings of the program are sequences of one-character strings.  Entry  *)
(* indices, display-line indices, offsets and columns are 0-based as in    *)
(* the source; a TLA+ sequence s holds the source's s[i] at s[i + 1].      *)
(* The terminal size (stdscr.getmaxyx) is fixed for a session.             *)
(***************************************************************************)
EXTENDS Integers, Sequences, FiniteSets, TLC

VARIABLES
    entries,              \* self.entries: sequence of [speaker, text]
    display_lines,        \* self.display_lines: sequence of <<entry_idx, offset, text>>
    cursor_display_line,  \* self.cursor_display_line
    cursor_field,         \* self.cursor_field: "speaker" or "content"
    cursor_pos,           \* self.cursor_pos
    status_msg,           \* self.status_msg
    scroll_offset,        \* self.scroll_offset
    keystroke_count,      \* self.keystroke_count
    undo_stack,           \* self.undo_stack
    filename,             \* self.filename: NoFile or a name
    disk,                 \* content of the file self.filename names
    swap,                 \* content of the swap file autosave writes
    content_width,        \* width - (ln_width + sp_width + 2 * col_sep), from getmaxyx
    max_visible,          \* height - 1, from getmaxyx
    running,              \* FALSE once the program has ended
    error,                \* the uncaught exception that ended the program, "" if none
    initial_load,         \* self.initial_load
    wrap_call,            \* the wrap_text call of the reflow in __init__ while the model
                          \* follows it pass by pass: where it is (pc), start, lines
                          \* and the passes of its loop so far (modulo 2)
    key_budget,           \* the key events a session of the model may take (0: any number)
    nkeys,                \* key events counted against key_budget
    last_key,             \* the key event processed last
    hist                  \* history, kept in sessions with a key budget: the live state
                          \* before the latest pushing operation (pre)
                          \* and before the one before it (pre2), whether the latest pushing
                          \* operation came right after a split, and the pushing operations so
                          \* far and since the last undo key (0, 1, 2 for more)

vars == <<entries, display_lines, cursor_display_line, cursor_field, cursor_pos,
          status_msg, scroll_offset, keystroke_count, undo_stack, filename, disk,
          swap, content_width, max_visible, running, error, initial_load, wrap_call, key_budget, nkeys, last_key, hist>>

-----------------------------------------------------------------------------
(* Bounds of the model *)

MaxKeys == 3
MaxLen == 4
MaxSpeakerLen == 2
MaxEntries == 3
MaxInitLen == 2
MaxWidth == 2
MaxWrapLen == 6
MaxWrapWidth == 4

InitEntryCounts == {1, 2}
VisibleRows == {1, 2}

(* Program constants *)

WRAP_CAP == 50
COMBINE_LIMIT == 150
MERGE_FACTOR == 3
UNDO_LIMIT == 100
autosave_interval == 10

NoFile == "None"
TextChars == {"a", " "}
Printable == {"a", " "}

-----------------------------------------------------------------------------
(* Python string and list primitives *)

Min(a, b) == IF a <= b THEN a ELSE b
Max(a, b) == IF a >= b THEN a ELSE b

\* s[a:b] for 0 <= a
Slice(s, a, b) == SubSeq(s, a + 1, Min(b, Len(s)))

\* s[a:]
SliceFrom(s, a) == SubSeq(s, a + 1, Len(s))

\* s.rfind(ch): the highest 0-based index holding ch, or -1
RFind(s, ch) ==
    LET hits == {i \in 1..Len(s) : s[i] = ch}
    IN  IF hits = {} THEN -1 ELSE (CHOOSE i \in hits : \A j \in hits : j <= i) - 1

\* s.find(ch): the lowest 0-based index holding ch, or -1
Find(s, ch) ==
    LET hits == {i \in 1..Len(s) : s[i] = ch}
    IN  IF hits = {} THEN -1 ELSE (CHOOSE i \in hits : \A j \in hits : i <= j) - 1

\* list.pop(i)
PopAt(s, i) == SubSeq(s, 1, i) \o SubSeq(s, i + 2, Len(s))

\* list.insert(i, x)
InsertAt(s, i, x) == SubSeq(s, 1, i) \o <<x>> \o SubSeq(s, i + 1, Len(s))

DialogueEntry(speaker, text) == [speaker |-> speaker, text |-> text]

-----------------------------------------------------------------------------
(* wrap_text *)

RECURSIVE WrapLoop(_, _, _)
WrapLoop(text, start, max_width) ==
    IF start >= Len(text) THEN <<>>
    ELSE LET remaining == Len(text) - start IN
         IF remaining <= max_width
         THEN << <<start, SliceFrom(text, start)>> >>
         ELSE LET segment == Slice(text, start, start + max_width + 1)
                  break_index == RFind(segment, " ")
              IN  IF break_index = -1 \/ break_index = 0
                  THEN << <<start, Slice(text, start, start + max_width)>> >>
                           \o WrapLoop(text, start + max_width, max_width)
                  ELSE << <<start, Slice(text, start, start + break_index)>> >>
                           \o WrapLoop(text, start + break_index + 1, max_width)

\* wrap_text with a hard break that advances one character too far
RECURSIVE WrapLoopSkip(_, _, _)
WrapLoopSkip(text, start, max_width) ==
    IF start >= Len(text) THEN <<>>
    ELSE LET remaining == Len(text) - start IN
         IF remaining <= max_width
         THEN << <<start, SliceFrom(text, start)>> >>
         ELSE LET segment == Slice(text, start, start + max_width + 1)
                  break_index == RFind(segment, " ")
              IN  IF break_index = -1 \/ break_index = 0
                  THEN << <<start, Slice(text, start, start + max_width)>> >>
                           \o WrapLoopSkip(text, start + max_width + 1, max_width)
                  ELSE << <<start, Slice(text, start, start + break_index)>> >>
                           \o WrapLoopSkip(text, start + break_index + 1, max_width)

wrap_text_skip(text, width) == WrapLoopSkip(text, 0, Min(width, WRAP_CAP))

\* wrap_text without the cap on the width
wrap_text_uncapped(text, width) == WrapLoop(text, 0, width)

wrap_text(text, width) == WrapLoop(text, 0, Min(width, WRAP_CAP))

-----------------------------------------------------------------------------
(* combine_same_speaker_entries: the load-time merge of adjacent entries *)

HasBracket(text) == \E k \in 1..Len(text) : text[k] \in {"[", "]"}

EndPunctuation == {".", "!", "?", ",", ":", ";"}

\* CanCombine with the length limit exclusive
CanCombineBelowLimit(current, next_entry) ==
    /\ current.speaker = next_entry.speaker
    /\ ~HasBracket(current.text)
    /\ ~HasBracket(next_entry.text)
    /\ Len(current.text) + 1 + Len(next_entry.text) < COMBINE_LIMIT

\* the condition under which the pass folds next_entry into current
CanCombine(current, next_entry) ==
    /\ current.speaker = next_entry.speaker
    /\ ~HasBracket(current.text)
    /\ ~HasBracket(next_entry.text)
    /\ Len(current.text) + 1 + Len(next_entry.text) <= COMBINE_LIMIT

\* the pass moving on to the next entry after a merge
RECURSIVE CombineLoopAdvance(_, _)
CombineLoopAdvance(es, i) ==
    IF ~(i < Len(es) - 1) THEN es
    ELSE LET current == es[i + 1]
             next_entry == es[i + 2]
         IN  IF CanCombine(current, next_entry)
             THEN LET spaced == IF /\ Len(current.text) > 0
                                   /\ current.text[Len(current.text)] \notin EndPunctuation
                                THEN current.text \o <<" ">>
                                ELSE current.text
                      merged == [current EXCEPT !.text = spaced \o next_entry.text]
                  IN  CombineLoopAdvance(PopAt([es EXCEPT ![i + 1] = merged], i + 1), i + 1)
             ELSE CombineLoopAdvance(es, i + 1)

RECURSIVE CombineLoop(_, _)
CombineLoop(es, i) ==
    IF ~(i < Len(es) - 1) THEN es
    ELSE LET current == es[i + 1]
             next_entry == es[i + 2]
         IN  IF CanCombine(current, next_entry)
             THEN LET spaced == IF /\ Len(current.text) > 0
                                   /\ current.text[Len(current.text)] \notin EndPunctuation
                                THEN current.text \o <<" ">>
                                ELSE current.text
                      merged == [current EXCEPT !.text = spaced \o next_entry.text]
                  IN  CombineLoop(PopAt([es EXCEPT ![i + 1] = merged], i + 1), i)
             ELSE CombineLoop(es, i + 1)

combine_same_speaker_entries(es) == CombineLoop(es, 0)

-----------------------------------------------------------------------------
(* reflow and the cursor model.  An editor value ed is a record holding    *)
(* the fields of the Editor object and the files it writes.                *)

\* wrapped, or [(0, "")] when wrap_text yields no row
\* the rows of wrap_text as they are, with nothing put in for an empty text
RowsAsWrapped(wrapped) == wrapped

RowsOrEmpty(wrapped) == IF wrapped = <<>> THEN << <<0, <<>> >> >> ELSE wrapped

\* display_lines.append((i, offset, line)) for each row of entry i
TagRows(entry_idx, rows) == [k \in 1..Len(rows) |-> <<entry_idx, rows[k][1], rows[k][2]>>]

\* the rows of the display table for one entry
EntryLines(es, entry_idx) ==
    TagRows(entry_idx, RowsOrEmpty(wrap_text(es[entry_idx + 1].text, content_width)))

RECURSIVE BuildLines(_, _)
BuildLines(es, entry_idx) ==
    IF entry_idx >= Len(es) THEN <<>>
    ELSE EntryLines(es, entry_idx) \o BuildLines(es, entry_idx + 1)

\* display_lines[i] of the source
LineAt(ed, i) == ed.display_lines[i + 1]

get_current_field_length(ed) ==
    LET line == LineAt(ed, ed.cursor_display_line)
    IN  IF ed.cursor_field = "speaker"
        THEN Len(ed.entries[line[1] + 1].speaker)
        ELSE Len(line[3])

\* the entries and the display table rebuilt from them
Relaid(ed, es) == [ed EXCEPT !.entries = es, !.display_lines = BuildLines(es, 0)]

\* if self.cursor_display_line >= len(self.display_lines): ...
ClampLine(ed) ==
    IF ed.cursor_display_line >= Len(ed.display_lines)
    THEN [ed EXCEPT !.cursor_display_line = Len(ed.display_lines) - 1, !.cursor_pos = 0]
    ELSE ed

\* if self.cursor_pos > cur_len: self.cursor_pos = cur_len; with an empty
\* display table get_current_field_length raises IndexError
ClampPos(ed) ==
    IF ed.display_lines = <<>>
    THEN [ed EXCEPT !.error = "IndexError", !.running = FALSE]
    ELSE IF ed.cursor_pos > get_current_field_length(ed)
    THEN [ed EXCEPT !.cursor_pos = get_current_field_length(ed)]
    ELSE ed

reflow(ed) ==
    ClampPos(ClampLine(Relaid(ed, IF ed.initial_load
                                  THEN combine_same_speaker_entries(ed.entries)
                                  ELSE ed.entries)))

\* the 0-based indices of the display lines of entry_idx
LinesOf(ed, entry_idx) ==
    {i \in 0..(Len(ed.display_lines) - 1) : LineAt(ed, i)[1] = entry_idx}

SetMin(S) == CHOOSE x \in S : \A y \in S : x <= y
SetMax(S) == CHOOSE x \in S : \A y \in S : y <= x

\* the first line of mine that holds target_offset with its column, else the
\* end of the last line of mine, else nothing (-1)
FoundLine(ed, mine, holds, target_offset) ==
    IF holds # {}
    THEN <<SetMin(holds), target_offset - LineAt(ed, SetMin(holds))[2]>>
    ELSE IF mine # {}
    THEN <<SetMax(mine), Len(LineAt(ed, SetMax(mine))[3])>>
    ELSE <<-1, 0>>

FindLine(ed, mine, target_offset) ==
    FoundLine(ed, mine,
              {i \in mine : /\ LineAt(ed, i)[2] <= target_offset
                            /\ target_offset <= LineAt(ed, i)[2] + Len(LineAt(ed, i)[3])},
              target_offset)

\* at the end of a line that has a next line of the same entry, the start of
\* that next line
JumpToNext(ed, entry_idx, found) ==
    IF /\ found[1] # -1
       /\ found[2] = Len(LineAt(ed, found[1])[3])
       /\ found[1] + 1 < Len(ed.display_lines)
       /\ LineAt(ed, found[1] + 1)[1] = entry_idx
    THEN <<found[1] + 1, 0>>
    ELSE found

PlaceCursor(ed, at) ==
    IF at[1] = -1 THEN ed
    ELSE [ed EXCEPT !.cursor_display_line = at[1],
                    !.cursor_field = "content",
                    !.cursor_pos = at[2]]

set_cursor_for_content(ed, entry_idx, target_offset) ==
    PlaceCursor(ed, JumpToNext(ed, entry_idx,
                               FindLine(ed, LinesOf(ed, entry_idx), target_offset)))

-----------------------------------------------------------------------------
(* The undo stack *)

Snapshot(ed) ==
    [entries |-> ed.entries,
     cursor_display_line |-> ed.cursor_display_line,
     cursor_field |-> ed.cursor_field,
     cursor_pos |-> ed.cursor_pos,
     scroll_offset |-> ed.scroll_offset]

\* save_undo_state dropping the newest snapshot, not the oldest, at the limit
save_undo_state_drop_newest(ed) ==
    LET kept == IF Len(ed.undo_stack) >= UNDO_LIMIT
                THEN SubSeq(ed.undo_stack, 1, Len(ed.undo_stack) - 1)
                ELSE ed.undo_stack
    IN  [ed EXCEPT !.undo_stack = Append(kept, Snapshot(ed))]

save_undo_state(ed) ==
    LET kept == IF Len(ed.undo_stack) >= UNDO_LIMIT THEN Tail(ed.undo_stack)
                ELSE ed.undo_stack
    IN  [ed EXCEPT !.undo_stack = Append(kept, Snapshot(ed))]

Restore(ed, popped, top) ==
    [ed EXCEPT !.undo_stack = popped,
               !.entries = top.entries,
               !.cursor_display_line = top.cursor_display_line,
               !.cursor_field = top.cursor_field,
               !.cursor_pos = top.cursor_pos,
               !.scroll_offset = top.scroll_offset]

undo(ed) ==
    IF Len(ed.undo_stack) <= 1
    THEN [ed EXCEPT !.status_msg = "Nothing to undo"]
    ELSE [reflow(Restore(ed, SubSeq(ed.undo_stack, 1, Len(ed.undo_stack) - 1),
                         ed.undo_stack[Len(ed.undo_stack) - 1]))
            EXCEPT !.status_msg = "Undo successful"]

-----------------------------------------------------------------------------
(* Edit operations *)

CurEntryIdx(ed) == LineAt(ed, ed.cursor_display_line)[1]
CurOffset(ed) == LineAt(ed, ed.cursor_display_line)[2]

\* the first display line of entry_idx with offset 0, or -1 (the loops that
\* follow a moved or new entry)
FirstLineOf(ed, entry_idx) ==
    LET hits == {i \in LinesOf(ed, entry_idx) : LineAt(ed, i)[2] = 0}
    IN  IF hits = {} THEN -1 ELSE SetMin(hits)

\* the nearest display line of entry_idx above line, or -1
PrevLineOf(ed, entry_idx, line) ==
    LET hits == {i \in LinesOf(ed, entry_idx) : i < line}
    IN  IF hits = {} THEN -1 ELSE SetMax(hits)

\* handle_insert below its save_undo_state
InsertChar(s, entry_idx, entry, char) ==
    IF s.cursor_field = "speaker"
    THEN reflow([s EXCEPT !.entries[entry_idx + 1].speaker =
                              Slice(entry.speaker, 0, s.cursor_pos) \o <<char>>
                                  \o SliceFrom(entry.speaker, s.cursor_pos),
                          !.cursor_pos = s.cursor_pos + 1])
    ELSE set_cursor_for_content(
             reflow([s EXCEPT !.entries[entry_idx + 1].text =
                                  Slice(entry.text, 0, CurOffset(s) + s.cursor_pos) \o <<char>>
                                      \o SliceFrom(entry.text, CurOffset(s) + s.cursor_pos)]),
             entry_idx, CurOffset(s) + s.cursor_pos + 1)

InsertFrom(s, char) == InsertChar(s, CurEntryIdx(s), s.entries[CurEntryIdx(s) + 1], char)

handle_insert(ed, char) == InsertFrom(save_undo_state(ed), char)

\* the join putting a space between the two texts, as the load-time merge does
JoinWithSpace(es, entry_idx) ==
    PopAt([es EXCEPT ![entry_idx].text = es[entry_idx].text \o <<" ">> \o es[entry_idx + 1].text],
          entry_idx)

\* prev_entry.text += entry.text; self.entries.pop(entry_idx)
JoinWithPrevious(es, entry_idx) ==
    PopAt([es EXCEPT ![entry_idx].text = es[entry_idx].text \o es[entry_idx + 1].text],
          entry_idx)

\* handle_backspace in the content field, joining only below the limit
BackspaceContentBelowLimit(s, entry_idx, entry, offset, prev_line) ==
    IF s.cursor_pos = 0 /\ offset > 0 /\ prev_line # -1
    THEN [s EXCEPT !.cursor_display_line = prev_line,
                   !.cursor_pos = Len(LineAt(s, prev_line)[3])]
    ELSE IF /\ s.cursor_pos = 0 /\ offset = 0 /\ entry_idx > 0
            /\ Len(s.entries[entry_idx].text) + Len(entry.text) < content_width * MERGE_FACTOR
    THEN set_cursor_for_content(
             reflow([s EXCEPT !.entries = JoinWithPrevious(s.entries, entry_idx)]),
             entry_idx - 1, Len(s.entries[entry_idx].text))
    ELSE IF offset + s.cursor_pos > 0
    THEN set_cursor_for_content(
             reflow([s EXCEPT !.entries[entry_idx + 1].text =
                                  Slice(entry.text, 0, offset + s.cursor_pos - 1)
                                      \o SliceFrom(entry.text, offset + s.cursor_pos)]),
             entry_idx, offset + s.cursor_pos - 1)
    ELSE s

\* handle_backspace in the content field
BackspaceContent(s, entry_idx, entry, offset, prev_line) ==
    IF s.cursor_pos = 0 /\ offset > 0 /\ prev_line # -1
    THEN [s EXCEPT !.cursor_display_line = prev_line,
                   !.cursor_pos = Len(LineAt(s, prev_line)[3])]
    ELSE IF /\ s.cursor_pos = 0 /\ offset = 0 /\ entry_idx > 0
            /\ Len(s.entries[entry_idx].text) + Len(entry.text) <= content_width * MERGE_FACTOR
    THEN set_cursor_for_content(
             reflow([s EXCEPT !.entries = JoinWithPrevious(s.entries, entry_idx)]),
             entry_idx - 1, Len(s.entries[entry_idx].text))
    ELSE IF offset + s.cursor_pos > 0
    THEN set_cursor_for_content(
             reflow([s EXCEPT !.entries[entry_idx + 1].text =
                                  Slice(entry.text, 0, offset + s.cursor_pos - 1)
                                      \o SliceFrom(entry.text, offset + s.cursor_pos)]),
             entry_idx, offset + s.cursor_pos - 1)
    ELSE s

\* handle_backspace in the speaker field
BackspaceSpeaker(s, entry_idx, entry) ==
    IF s.cursor_pos > 0
    THEN reflow([s EXCEPT !.entries[entry_idx + 1].speaker =
                              Slice(entry.speaker, 0, s.cursor_pos - 1)
                                  \o SliceFrom(entry.speaker, s.cursor_pos),
                          !.cursor_pos = s.cursor_pos - 1])
    ELSE reflow(s)

BackspaceFrom(s, entry_idx) ==
    IF s.cursor_field = "speaker"
    THEN BackspaceSpeaker(s, entry_idx, s.entries[entry_idx + 1])
    ELSE BackspaceContent(s, entry_idx, s.entries[entry_idx + 1], CurOffset(s),
                          PrevLineOf(s, entry_idx, s.cursor_display_line))

handle_backspace(ed) == BackspaceFrom(save_undo_state(ed), CurEntryIdx(ed))

\* the split both move operations make when the cursor is on a continuation line
SplitAtOffset(es, entry_idx, offset) ==
    LET entry == es[entry_idx + 1]
        first_part == Slice(entry.text, 0, offset)
        second_part == SliceFrom(entry.text, offset)
    IN  InsertAt([es EXCEPT ![entry_idx + 1].text = first_part], entry_idx + 1,
                 DialogueEntry(entry.speaker, second_part))

\* entries[i], entries[j] = entries[j], entries[i]
Swap(es, i, j) == [es EXCEPT ![i + 1] = es[j + 1], ![j + 1] = es[i + 1]]

\* the loops that put the cursor on the first line of a moved entry
GoToLine(ed, line) == IF line # -1 THEN [ed EXCEPT !.cursor_display_line = line] ELSE ed

\* the cursor left on the line it was on
CursorStays(ed, entry_idx) == ed

CursorToEntry(ed, entry_idx) == GoToLine(ed, FirstLineOf(ed, entry_idx))

\* move_entry_up once the entry to move is known
MoveUpEntry(s, entry_idx) ==
    IF entry_idx <= 0
    THEN [s EXCEPT !.status_msg = "Already at the top"]
    ELSE [CursorToEntry(reflow([s EXCEPT !.entries = Swap(s.entries, entry_idx, entry_idx - 1)]),
                        entry_idx - 1)
            EXCEPT !.status_msg = "Moved entry up"]

MoveUpFrom(s, entry_idx, offset) ==
    IF offset > 0
    THEN MoveUpEntry([s EXCEPT !.entries = SplitAtOffset(s.entries, entry_idx, offset)],
                     entry_idx + 1)
    ELSE MoveUpEntry(s, entry_idx)

move_entry_up(ed) == MoveUpFrom(save_undo_state(ed), CurEntryIdx(ed), CurOffset(ed))

\* move_entry_down once the entry to move is known
MoveDownEntry(s, entry_idx) ==
    IF entry_idx >= Len(s.entries) - 1
    THEN [s EXCEPT !.status_msg = "Already at the bottom"]
    ELSE [CursorToEntry(reflow([s EXCEPT !.entries = Swap(s.entries, entry_idx, entry_idx + 1)]),
                        entry_idx + 1)
            EXCEPT !.status_msg = "Moved entry down"]

MoveDownFrom(s, entry_idx, offset) ==
    IF offset > 0
    THEN MoveDownEntry(
             CursorToEntry(reflow([s EXCEPT !.entries =
                                       SplitAtOffset(s.entries, entry_idx, offset)]),
                           entry_idx + 1),
             entry_idx + 1)
    ELSE MoveDownEntry(s, entry_idx)

move_entry_down(ed) == MoveDownFrom(save_undo_state(ed), CurEntryIdx(ed), CurOffset(ed))

\* the loop that puts the cursor at the start of the new entry
GoToLineStart(ed, line) ==
    IF line # -1 THEN [ed EXCEPT !.cursor_display_line = line, !.cursor_pos = 0] ELSE ed

CursorToEntryStart(ed, entry_idx) == GoToLineStart(ed, FirstLineOf(ed, entry_idx))

\* the status text also carries the split position, which the model leaves out
SplitEntry(ed, entry_idx, entry, actual_pos) ==
    [CursorToEntryStart(
         reflow([ed EXCEPT !.entries =
                     InsertAt([ed.entries EXCEPT ![entry_idx + 1].text =
                                   Slice(entry.text, 0, actual_pos)],
                              entry_idx + 1,
                              DialogueEntry(entry.speaker, SliceFrom(entry.text, actual_pos)))]),
         entry_idx + 1)
       EXCEPT !.status_msg = "Split line at cursor"]

split_line_at_cursor(ed) ==
    IF ed.cursor_field # "content"
    THEN [ed EXCEPT !.status_msg = "Can only split when cursor is in content"]
    ELSE SplitEntry(ed, CurEntryIdx(ed), ed.entries[CurEntryIdx(ed) + 1],
                    CurOffset(ed) + ed.cursor_pos)

-----------------------------------------------------------------------------
(* Files: the tab-separated format of save_file, autosave and load_file *)

RECURSIVE FileText(_)
FileText(es) ==
    IF es = <<>> THEN <<>>
    ELSE es[1].speaker \o <<"\t">> \o es[1].text \o <<"\n">> \o FileText(Tail(es))

\* the lines a text file iterates over, each with its newline
RECURSIVE FileLines(_)
FileLines(file) ==
    IF file = <<>> THEN <<>>
    ELSE LET k == Find(file, "\n")
         IN  IF k = -1 THEN <<file>>
             ELSE <<Slice(file, 0, k + 1)>> \o FileLines(SliceFrom(file, k + 1))

\* line.rstrip("\n")
RECURSIVE RStripNewline(_)
RStripNewline(line) ==
    IF line # <<>> /\ line[Len(line)] = "\n"
    THEN RStripNewline(SubSeq(line, 1, Len(line) - 1))
    ELSE line

\* ParseLine without the rstrip of the newline
ParseLineKeepNewline(raw) ==
    LET k == Find(raw, "\t")
    IN  IF k # -1 THEN DialogueEntry(Slice(raw, 0, k), SliceFrom(raw, k + 1))
        ELSE DialogueEntry(raw, <<>>)

\* line.split("\t", 1) made into an entry
ParseLine(raw) ==
    LET line == RStripNewline(raw)
        k == Find(line, "\t")
    IN  IF k # -1 THEN DialogueEntry(Slice(line, 0, k), SliceFrom(line, k + 1))
        ELSE DialogueEntry(line, <<>>)

\* the content of a file that cannot be opened
Unreadable == <<"unreadable">>

\* the entries load_file appends; none when open raises
load_file(file) ==
    IF file = Unreadable THEN <<>>
    ELSE LET lines == FileLines(file)
         IN  [k \in 1..Len(lines) |-> ParseLine(lines[k])]

\* a failing write is not modelled
save_file(ed) ==
    IF ed.filename = NoFile
    THEN [ed EXCEPT !.status_msg = "No filename provided."]
    ELSE [ed EXCEPT !.disk = FileText(ed.entries), !.status_msg = "File saved."]

\* the status text also names the swap file
autosave(ed) ==
    [ed EXCEPT !.swap = [exists |-> TRUE, text |-> FileText(ed.entries)],
               !.status_msg = "Autosaved"]

-----------------------------------------------------------------------------
(* Session construction: Editor.__init__ *)

DefaultSpeaker == <<"S", "p", "e", "a", "k", "e", "r">>

\* the status text of a failed load also carries the exception's message

\* __init__ that leaves the initial_load flag set
FirstSnapshotKeepFlag(ed) == IF ed.error # "" THEN ed ELSE save_undo_state(ed)

\* the end of __init__, which an exception raised in reflow does not reach
FirstSnapshot(ed) ==
    IF ed.error # "" THEN ed ELSE save_undo_state([ed EXCEPT !.initial_load = FALSE])

EditorInit(name, file) ==
    LET blank == [entries |-> IF name # NoFile THEN load_file(file)
                              ELSE <<DialogueEntry(DefaultSpeaker, <<>>)>>,
                  display_lines |-> <<>>,
                  cursor_display_line |-> 0,
                  cursor_field |-> "content",
                  cursor_pos |-> 0,
                  status_msg |-> IF name # NoFile /\ file = Unreadable
                                 THEN "Error loading file" ELSE "",
                  scroll_offset |-> 0,
                  keystroke_count |-> 0,
                  undo_stack |-> <<>>,
                  filename |-> name,
                  disk |-> file,
                  swap |-> [exists |-> FALSE, text |-> <<>>],
                  running |-> TRUE,
                  error |-> "",
                  initial_load |-> TRUE]
    IN  FirstSnapshot(reflow(blank))

-----------------------------------------------------------------------------
(* process_key.  A key event is "CTRL" (a control code other than Tab and  *)
(* Enter, Ctrl+S, Ctrl+Q and Ctrl+\ among them), a curses key name, a      *)
(* shortcut character ("BACKSLASH", "BACKTICK", "TILDE"), a printable      *)
(* character, or "OTHER" (a key code the handler has no branch for).       *)

scroll_down(ed) ==
    IF ed.cursor_display_line >= ed.scroll_offset + max_visible
    THEN [ed EXCEPT !.scroll_offset = ed.cursor_display_line - max_visible + 1]
    ELSE ed

ClearSpeaker(s) ==
    reflow([s EXCEPT !.entries[CurEntryIdx(s) + 1].speaker = <<>>, !.cursor_pos = 0])

key_clear_speaker(ed) == ClearSpeaker(save_undo_state(ed))

\* Tab without the reset of the column
key_tab_keep_pos(ed) ==
    [ed EXCEPT !.cursor_field = IF ed.cursor_field = "content" THEN "speaker" ELSE "content"]

key_tab(ed) ==
    [ed EXCEPT !.cursor_field = IF ed.cursor_field = "content" THEN "speaker" ELSE "content",
               !.cursor_pos = 0]

key_enter(ed) ==
    IF ed.cursor_field = "content" THEN split_line_at_cursor(save_undo_state(ed)) ELSE ed

\* self.cursor_pos = min(self.cursor_pos, self.get_current_field_length())
ClampToField(ed) == [ed EXCEPT !.cursor_pos = Min(ed.cursor_pos, get_current_field_length(ed))]

scroll_up(ed) ==
    IF ed.cursor_display_line < ed.scroll_offset
    THEN [ed EXCEPT !.scroll_offset = ed.cursor_display_line]
    ELSE ed

key_up(ed) ==
    IF ed.cursor_display_line > 0
    THEN scroll_up(ClampToField([ed EXCEPT !.cursor_display_line = ed.cursor_display_line - 1]))
    ELSE ed

key_down(ed) ==
    IF ed.cursor_display_line < Len(ed.display_lines) - 1
    THEN scroll_down(ClampToField([ed EXCEPT !.cursor_display_line = ed.cursor_display_line + 1]))
    ELSE ed

\* Left that goes to the end of the line above, whatever its entry
key_left_any_entry(ed) ==
    IF ed.cursor_pos > 0 THEN [ed EXCEPT !.cursor_pos = ed.cursor_pos - 1]
    ELSE IF ed.cursor_field = "content" /\ ed.cursor_display_line > 0
    THEN [ed EXCEPT !.cursor_display_line = ed.cursor_display_line - 1,
                    !.cursor_pos = Len(LineAt(ed, ed.cursor_display_line - 1)[3])]
    ELSE ed

key_left(ed) ==
    IF ed.cursor_pos > 0 THEN [ed EXCEPT !.cursor_pos = ed.cursor_pos - 1]
    ELSE LET prev_line == PrevLineOf(ed, CurEntryIdx(ed), ed.cursor_display_line)
         IN  IF ed.cursor_field = "content" /\ prev_line # -1
             THEN [ed EXCEPT !.cursor_display_line = prev_line,
                             !.cursor_pos = Len(LineAt(ed, prev_line)[3])]
             ELSE ed

key_right(ed) ==
    IF ed.cursor_pos < get_current_field_length(ed)
    THEN [ed EXCEPT !.cursor_pos = ed.cursor_pos + 1]
    ELSE IF /\ ed.cursor_field = "content"
            /\ ed.cursor_display_line < Len(ed.display_lines) - 1
    THEN scroll_down([ed EXCEPT !.cursor_display_line = ed.cursor_display_line + 1,
                                !.cursor_pos = 0])
    ELSE ed

\* the branches of process_key below its autosave check, in the source's order
Dispatch(ed, key) ==
    IF key = "CTRL" THEN [ed EXCEPT !.status_msg = "Control key pressed"]
    ELSE IF key = "BACKSLASH" /\ ed.cursor_field = "speaker" THEN key_clear_speaker(ed)
    ELSE IF key = "BACKTICK" THEN save_file(ed)
    ELSE IF key = "TILDE" THEN [ed EXCEPT !.running = FALSE]
    ELSE IF key = "KEY_DC" THEN undo(ed)
    ELSE IF key = "KEY_HOME" THEN [ed EXCEPT !.cursor_pos = 0]
    ELSE IF key = "KEY_END" /\ ed.cursor_field = "content"
    THEN [ed EXCEPT !.cursor_pos = get_current_field_length(ed)]
    ELSE IF key = "KEY_PPAGE" THEN move_entry_up(ed)
    ELSE IF key = "KEY_NPAGE" THEN move_entry_down(ed)
    ELSE IF key = "TAB" THEN key_tab(ed)
    ELSE IF key = "ENTER" THEN key_enter(ed)
    ELSE IF key = "KEY_UP" THEN key_up(ed)
    ELSE IF key = "KEY_DOWN" THEN key_down(ed)
    ELSE IF key = "KEY_LEFT" THEN key_left(ed)
    ELSE IF key = "KEY_RIGHT" THEN key_right(ed)
    ELSE IF key = "BACKSPACE" THEN handle_backspace(ed)
    ELSE IF key \in Printable THEN handle_insert(ed, key)
    ELSE ed

\* CountKey firing one key event late
CountKeyLate(ed) ==
    IF ed.keystroke_count + 1 > autosave_interval
    THEN [autosave(ed) EXCEPT !.keystroke_count = 0]
    ELSE [ed EXCEPT !.keystroke_count = ed.keystroke_count + 1]

\* the keystroke count and the autosave it triggers
CountKey(ed) ==
    IF ed.keystroke_count + 1 >= autosave_interval
    THEN [autosave(ed) EXCEPT !.keystroke_count = 0]
    ELSE [ed EXCEPT !.keystroke_count = ed.keystroke_count + 1]

process_key(ed, key) == Dispatch(CountKey([ed EXCEPT !.status_msg = ""]), key)

-----------------------------------------------------------------------------
(* The session as a state machine *)

Cur ==
    [entries |-> entries,
     display_lines |-> display_lines,
     cursor_display_line |-> cursor_display_line,
     cursor_field |-> cursor_field,
     cursor_pos |-> cursor_pos,
     status_msg |-> status_msg,
     scroll_offset |-> scroll_offset,
     keystroke_count |-> keystroke_count,
     undo_stack |-> undo_stack,
     filename |-> filename,
     disk |-> disk,
     swap |-> swap,
     running |-> running,
     error |-> error,
     initial_load |-> initial_load]

Becomes(ed) ==
    /\ entries' = ed.entries
    /\ display_lines' = ed.display_lines
    /\ cursor_display_line' = ed.cursor_display_line
    /\ cursor_field' = ed.cursor_field
    /\ cursor_pos' = ed.cursor_pos
    /\ status_msg' = ed.status_msg
    /\ scroll_offset' = ed.scroll_offset
    /\ keystroke_count' = ed.keystroke_count
    /\ undo_stack' = ed.undo_stack
    /\ filename' = ed.filename
    /\ disk' = ed.disk
    /\ swap' = ed.swap
    /\ running' = ed.running
    /\ error' = ed.error
    /\ initial_load' = ed.initial_load

\* the key events whose handler calls save_undo_state
Pushes(key) ==
    \/ key = "BACKSLASH" /\ cursor_field = "speaker"
    \/ key = "ENTER" /\ cursor_field = "content"
    \/ key \in {"KEY_PPAGE", "KEY_NPAGE", "BACKSPACE"}
    \/ key \in Printable

Strings(chars, n) == UNION {[1..k -> chars] : k \in 0..n}

InitSpeakers == {<<"A">>, <<"B">>}

\* the speaker of the k-th record of an initial file
InitSpeaker(k) == IF k % 2 = 1 THEN <<"A">> ELSE <<"B">>

\* the record lists of the initial files: one record with a text of at most
\* MaxInitLen characters, or two whose texts hold two characters fewer together
FitsInit(ts) ==
    IF Len(ts) = 1 THEN Len(ts[1]) <= MaxInitLen
    ELSE Len(ts[1]) + Len(ts[2]) <= MaxInitLen - 2

InitLists ==
    LET texts == Strings(TextChars, MaxInitLen)
        lists == UNION {[1..k -> texts] : k \in InitEntryCounts}
    IN  {[k \in 1..Len(ts) |-> DialogueEntry(InitSpeaker(k), ts[k])] :
            ts \in {l \in lists : FitsInit(l)}}

StartsAs(ed) ==
    /\ entries = ed.entries
    /\ display_lines = ed.display_lines
    /\ cursor_display_line = ed.cursor_display_line
    /\ cursor_field = ed.cursor_field
    /\ cursor_pos = ed.cursor_pos
    /\ status_msg = ed.status_msg
    /\ scroll_offset = ed.scroll_offset
    /\ keystroke_count = ed.keystroke_count
    /\ undo_stack = ed.undo_stack
    /\ filename = ed.filename
    /\ disk = ed.disk
    /\ swap = ed.swap
    /\ running = ed.running
    /\ error = ed.error
    /\ initial_load = ed.initial_load

\* no wrap_text call is being followed
NoCall == [pc |-> "idle", start |-> 0, lines |-> <<>>, passes |-> 0]

\* a session constructed on file (or on no file), in a terminal of some size
InitSession(name, file, widths, rows, budget) ==
    /\ wrap_call = NoCall
    /\ content_width \in widths
    /\ max_visible \in rows
    /\ key_budget = budget
    /\ \E ed \in {EditorInit(name, file)} :
          /\ StartsAs(ed)
          /\ hist = [pre |-> Snapshot(ed), pre2 |-> Snapshot(ed), after_split |-> FALSE,
                     ops_total |-> 0, ops_run |-> 0, undone_run |-> 0]
    /\ nkeys = 0
    /\ last_key = "none"

Init ==
    \/ InitSession(NoFile, <<>>, 1..MaxWidth, VisibleRows, MaxKeys)
    \/ \E rs \in InitLists : InitSession("f", FileText(rs), 1..MaxWidth, VisibleRows, MaxKeys)

\* one pass of the main loop on a key event: process_key, and the history
KeyStep(key) ==
    /\ running
    /\ key_budget = 0 \/ nkeys < key_budget
    /\ \E ed \in {process_key(Cur, key)} : Becomes(ed)
    /\ nkeys' = IF key_budget = 0 THEN nkeys ELSE nkeys + 1
    /\ last_key' = key
    /\ hist' = IF key_budget = 0 THEN hist
               ELSE IF Pushes(key)
               THEN [hist EXCEPT !.pre = Snapshot(Cur),
                                 !.pre2 = hist.pre,
                                 !.after_split = (last_key = "ENTER" /\ status_msg = "Split line at cursor"),
                                 !.ops_total = Min(hist.ops_total + 1, 2),
                                 !.ops_run = Min(hist.ops_run + 1, 2)]
               ELSE IF key = "KEY_DC"
               THEN [hist EXCEPT !.after_split = FALSE,
                                 !.undone_run = hist.ops_run, !.ops_run = 0]
               ELSE [hist EXCEPT !.after_split = FALSE]
    /\ UNCHANGED <<content_width, max_visible, key_budget, wrap_call>>

\* the model's bounds on what an operation may grow
RoomForEntry == Len(entries) < MaxEntries
RoomForChar ==
    IF cursor_field = "speaker"
    THEN Len(entries[CurEntryIdx(Cur) + 1].speaker) < MaxSpeakerLen
    ELSE Len(entries[CurEntryIdx(Cur) + 1].text) < MaxLen

KeyControl == KeyStep("CTRL")
KeyBackslash == KeyStep("BACKSLASH")
KeySave == KeyStep("BACKTICK")
KeyQuit == KeyStep("TILDE")
KeyUndo == KeyStep("KEY_DC")
KeyHome == KeyStep("KEY_HOME")
KeyEnd == KeyStep("KEY_END")
KeyPageUp == running /\ (CurOffset(Cur) > 0 => RoomForEntry) /\ KeyStep("KEY_PPAGE")
KeyPageDown == running /\ (CurOffset(Cur) > 0 => RoomForEntry) /\ KeyStep("KEY_NPAGE")
KeyTab == KeyStep("TAB")
KeyEnter == (cursor_field = "content" => RoomForEntry) /\ KeyStep("ENTER")
KeyUp == KeyStep("KEY_UP")
KeyDown == KeyStep("KEY_DOWN")
KeyLeft == KeyStep("KEY_LEFT")
KeyRight == KeyStep("KEY_RIGHT")
KeyBackspace == KeyStep("BACKSPACE")
KeyInsert == \E c \in Printable : running /\ RoomForChar /\ KeyStep(c)
KeyOther == KeyStep("OTHER")

Next ==
    \/ KeyControl
    \/ KeyBackslash
    \/ KeySave
    \/ KeyQuit
    \/ KeyUndo
    \/ KeyHome
    \/ KeyEnd
    \/ KeyPageUp
    \/ KeyPageDown
    \/ KeyTab
    \/ KeyEnter
    \/ KeyUp
    \/ KeyDown
    \/ KeyLeft
    \/ KeyRight
    \/ KeyBackspace
    \/ KeyInsert
    \/ KeyOther

Spec == Init /\ [][Next]_vars

-----------------------------------------------------------------------------
(* A session kept open for any number of key events, on a file of one      *)
(* record, with the keys that move the cursor right, ask to move the entry *)
(* up (refused on the only record, after the push) and undo: the undo      *)
(* stack fills to its limit.                                               *)

CapFile == FileText(<<DialogueEntry(<<"A">>, <<"a">>)>>)

InitCap == InitSession("f", CapFile, {MaxWidth}, {SetMax(VisibleRows)}, 0)

NextCap ==
    \/ KeyRight
    \/ KeyPageUp
    \/ KeyUndo

SpecCap == InitCap /\ [][NextCap]_vars

-----------------------------------------------------------------------------
(* Sessions of one key event on a file of one record, over every text of   *)
(* up to MaxWrapLen characters and every width up to MaxWrapWidth: reflow  *)
(* applies wrap_text to each of them.                                      *)

InitWrap ==
    \E t \in Strings(TextChars, MaxWrapLen) :
        InitSession("f", FileText(<<DialogueEntry(<<"A">>, t)>>), 1..MaxWrapWidth,
                    {SetMax(VisibleRows)}, 1)

SpecWrap == InitWrap /\ [][Next]_vars

-----------------------------------------------------------------------------
(* Sessions of two key events on files of one or two records whose texts   *)
(* may hold a bracket or end in punctuation: what save_file writes is      *)
(* loaded again as the program loads a file at startup.                    *)

FileTexts == {<<>>, <<"a">>, <<"[">>, <<"a", ".">>}

FileLists ==
    LET records == [speaker : InitSpeakers, text : FileTexts]
    IN  UNION {[1..k -> records] : k \in {1, 2}}

InitFile ==
    \E rs \in FileLists :
        InitSession("f", FileText(rs), 1..MaxWidth, {SetMax(VisibleRows)}, 2)

SpecFile == InitFile /\ [][Next]_vars

-----------------------------------------------------------------------------
(* Sessions on files of up to three records whose texts reach the length   *)
(* limit of the load-time merge, saved and started again on the saved      *)
(* file: each start runs combine_same_speaker_entries on what it loads.    *)
(* The terminal is as wide as the limit, so that a text takes few rows.    *)

Rep(n) == [k \in 1..n |-> "a"]

HalfLimit == COMBINE_LIMIT \div 2

MergeTexts ==
    {<<>>, <<"a">>, <<"a", ".">>, <<"a", "?">>, <<"[">>, Rep(HalfLimit - 1), Rep(HalfLimit)}

\* one speaker with every text, and one record of another speaker
MergeRecords ==
    {DialogueEntry(<<"A">>, t) : t \in MergeTexts} \cup {DialogueEntry(<<"B">>, <<"a">>)}

MergeLists == UNION {[1..k -> MergeRecords] : k \in {1, 2, 3}}

InitMerge ==
    \E rs \in MergeLists :
        InitSession("f", FileText(rs), {COMBINE_LIMIT}, {SetMax(VisibleRows)}, 1)

\* the program started again on the file as it now is on disk
Restart ==
    /\ filename # NoFile
    /\ \E ed \in {EditorInit(filename, disk)} :
          /\ Becomes(ed)
          /\ hist' = [pre |-> Snapshot(ed), pre2 |-> Snapshot(ed), after_split |-> FALSE,
                      ops_total |-> 0, ops_run |-> 0, undone_run |-> 0]
    /\ nkeys' = 0
    /\ last_key' = "none"
    /\ UNCHANGED <<content_width, max_visible, key_budget, wrap_call>>

NextMerge ==
    \/ KeySave
    \/ Restart

SpecMerge == InitMerge /\ [][NextMerge]_vars

-----------------------------------------------------------------------------
(* Sessions of any number of key events, among them rejected control codes *)
(* and an edit operation, on a file of one record: long enough for the     *)
(* keystroke counter to reach the autosave interval again and again.       *)

NextAuto ==
    \/ KeyControl
    \/ KeyPageUp
    \/ KeyUndo

SpecAuto == InitCap /\ [][NextAuto]_vars

-----------------------------------------------------------------------------
(* Sessions of one key event started on a file that cannot be opened, on   *)
(* an empty file, or on a file of records.                                 *)

InitLoad ==
    \/ InitSession("f", Unreadable, 1..MaxWidth, {SetMax(VisibleRows)}, 1)
    \/ InitSession("f", <<>>, 1..MaxWidth, {SetMax(VisibleRows)}, 1)
    \/ \E rs \in InitLists :
           InitSession("f", FileText(rs), 1..MaxWidth, {SetMax(VisibleRows)}, 1)

SpecLoad == InitLoad /\ [][Next]_vars

-----------------------------------------------------------------------------
(* Sessions of two key events on files of two or three records of          *)
(* alternating speakers, with texts of up to MaxLen characters: joins at,   *)
(* below and above content_width * 3.                                       *)

JoinLists ==
    LET texts == Strings({"a"}, MaxLen)
        lists == UNION {[1..k -> texts] : k \in {2, 3}}
    IN  {[k \in 1..Len(ts) |-> DialogueEntry(InitSpeaker(k), ts[k])] : ts \in lists}

InitJoin ==
    \E rs \in JoinLists :
        InitSession("f", FileText(rs), 1..MaxWidth, {SetMax(VisibleRows)}, 2)

SpecJoin == InitJoin /\ [][Next]_vars

-----------------------------------------------------------------------------
(* The sessions of SpecWrap, and sessions of one key event on a file of    *)
(* one record whose text is around WRAP_CAP characters long, with and      *)
(* without a space near the cap, in terminals at and beyond the cap.       *)

LongTexts ==
    {Rep(WRAP_CAP), Rep(WRAP_CAP + 1), Rep(2 * WRAP_CAP + 1),
     Rep(WRAP_CAP - 1) \o <<" ">> \o Rep(2),
     Rep(WRAP_CAP) \o <<" ">> \o Rep(1),
     Rep(WRAP_CAP + 1) \o <<" ">> \o Rep(1),
     <<" ">> \o Rep(WRAP_CAP + 1),
     Rep(WRAP_CAP) \o <<" ">>}

WideWidths == {WRAP_CAP - 1, WRAP_CAP, WRAP_CAP + 1, COMBINE_LIMIT}

InitWrapCap ==
    \/ InitWrap
    \/ \E t \in LongTexts :
           InitSession("f", FileText(<<DialogueEntry(<<"A">>, t)>>), WideWidths,
                       {SetMax(VisibleRows)}, 1)

SpecWrapCap == InitWrapCap /\ [][Next]_vars

-----------------------------------------------------------------------------
(* The construction of a session on a file of one record, with the         *)
(* wrap_text call that reflow makes followed one pass of its while loop at  *)
(* a time, in terminals whose content width may be zero or negative.        *)

\* a Python slice bound: negative bounds count from the end
PyIndex(s, i) == IF i < 0 THEN Max(i + Len(s), 0) ELSE Min(i, Len(s))

\* s[a:b] for any integers a and b
PySlice(s, a, b) == SubSeq(s, PyIndex(s, a) + 1, PyIndex(s, b))

\* lines.append(line); a call that returns appends at most len(text) lines,
\* and the model keeps no more than one beyond that
KeepLine(text, lines, line) == IF Len(lines) <= Len(text) THEN Append(lines, line) ELSE lines

\* start += by; below -len(text) every slice from start is the same, and
\* the model keeps start no lower
Advance(text, start, by) == Max(start + by, 0 - Len(text))

\* the rest of one pass of the while loop, once break_index is known
WrapBreak(text, start, max_width, lines, break_index) ==
    IF break_index = -1 \/ break_index = 0
    THEN [pc |-> "loop",
          start |-> Advance(text, start, max_width),
          lines |-> KeepLine(text, lines, <<start, PySlice(text, start, start + max_width)>>)]
    ELSE [pc |-> "loop",
          start |-> Advance(text, start, break_index + 1),
          lines |-> KeepLine(text, lines, <<start, PySlice(text, start, start + break_index)>>)]

\* one pass of the while loop of wrap_text
WrapPass(text, start, max_width, lines) ==
    IF Len(text) - start <= max_width
    THEN [pc |-> "returned",
          start |-> start,
          lines |-> KeepLine(text, lines, <<start, PySlice(text, start, Len(text))>>)]
    ELSE WrapBreak(text, start, max_width, lines,
                   RFind(PySlice(text, start, start + max_width + 1), " "))

\* the call after one more pass; the passes made are counted modulo 2
Counted(call, passes) ==
    [pc |-> call.pc, start |-> call.start, lines |-> call.lines,
     passes |-> (passes + 1) % 2]

ReflowWidths == (0 - MaxWrapWidth)..MaxWrapWidth

\* __init__ up to the wrap_text call of its reflow
InitReflow ==
    /\ \E t \in Strings(TextChars, MaxWrapLen) :
           /\ disk = FileText(<<DialogueEntry(<<"A">>, t)>>)
           /\ entries = load_file(disk)
    /\ display_lines = <<>>
    /\ cursor_display_line = 0
    /\ cursor_field = "content"
    /\ cursor_pos = 0
    /\ status_msg = ""
    /\ scroll_offset = 0
    /\ keystroke_count = 0
    /\ undo_stack = <<>>
    /\ filename = "f"
    /\ swap = [exists |-> FALSE, text |-> <<>>]
    /\ running = TRUE
    /\ error = ""
    /\ initial_load = TRUE
    /\ wrap_call = [pc |-> "loop", start |-> 0, lines |-> <<>>, passes |-> 0]
    /\ content_width \in ReflowWidths
    /\ max_visible = SetMax(VisibleRows)
    /\ key_budget = 1
    /\ nkeys = 0
    /\ last_key = "none"
    /\ hist = [pre |-> Snapshot(Cur), pre2 |-> Snapshot(Cur), after_split |-> FALSE,
               ops_total |-> 0, ops_run |-> 0, undone_run |-> 0]

\* while start < len(text): one pass
WrapStep ==
    /\ wrap_call.pc = "loop"
    /\ wrap_call.start < Len(entries[1].text)
    /\ wrap_call' = Counted(WrapPass(entries[1].text, wrap_call.start,
                                     Min(content_width, WRAP_CAP), wrap_call.lines),
                            wrap_call.passes)
    /\ UNCHANGED <<entries, display_lines, cursor_display_line, cursor_field, cursor_pos,
                   status_msg, scroll_offset, keystroke_count, undo_stack, filename, disk,
                   swap, content_width, max_visible, running, error, initial_load,
                   key_budget, nkeys, last_key, hist>>

\* the while condition is false: return lines
WrapReturn ==
    /\ wrap_call.pc = "loop"
    /\ wrap_call.start >= Len(entries[1].text)
    /\ wrap_call' = [wrap_call EXCEPT !.pc = "returned"]
    /\ UNCHANGED <<entries, display_lines, cursor_display_line, cursor_field, cursor_pos,
                   status_msg, scroll_offset, keystroke_count, undo_stack, filename, disk,
                   swap, content_width, max_visible, running, error, initial_load,
                   key_budget, nkeys, last_key, hist>>

\* the rest of reflow and of __init__ once wrap_text has returned
Constructed(ed, lines) ==
    FirstSnapshot(ClampPos(ClampLine([ed EXCEPT !.display_lines = TagRows(0, RowsOrEmpty(lines))])))

ReflowDone ==
    /\ wrap_call.pc = "returned"
    /\ \E ed \in {Constructed(Cur, wrap_call.lines)} :
          /\ Becomes(ed)
          /\ hist' = [pre |-> Snapshot(ed), pre2 |-> Snapshot(ed), after_split |-> FALSE,
                      ops_total |-> 0, ops_run |-> 0, undone_run |-> 0]
    /\ wrap_call' = NoCall
    /\ UNCHANGED <<content_width, max_visible, key_budget, nkeys, last_key>>

NextReflow ==
    \/ WrapStep
    \/ WrapReturn
    \/ ReflowDone

SpecReflow == InitReflow /\ [][NextReflow]_vars /\ WF_vars(NextReflow)

-----------------------------------------------------------------------------
(* The properties.  PreLines is the display table of the state before the  *)
(* latest pushing operation, PreLine the row its cursor was on.            *)

PreLines == BuildLines(hist.pre.entries, 0)
PreLine == PreLines[hist.pre.cursor_display_line + 1]
Pre2Line == BuildLines(hist.pre2.entries, 0)[hist.pre2.cursor_display_line + 1]

\* the rows <<startOffset, text>> of one record in the display table
RowsOf(entry_idx) ==
    LET Mine(l) == l[1] = entry_idx
        mine == SelectSeq(display_lines, Mine)
    IN  [k \in 1..Len(mine) |-> <<mine[k][2], mine[k][3]>>]

\* the rows joined in order, with one space wherever the next row (or the
\* end of the text, after the last row) starts beyond the end of the row
RECURSIVE Rebuild(_, _)
Rebuild(rows, text_len) ==
    IF rows = <<>> THEN <<>>
    ELSE LET next_start == IF Len(rows) > 1 THEN rows[2][1] ELSE text_len
             consumed == IF next_start > rows[1][1] + Len(rows[1][2]) THEN <<" ">> ELSE <<>>
         IN  rows[1][2] \o consumed \o Rebuild(Tail(rows), text_len)

UndoSucceeded == last_key = "KEY_DC" /\ status_msg = "Undo successful"

\* C1: after n >= 1 mutating operations with no undo in between, one undo
\* restores the records to their value just before the most recent operation.
C1_UndoRevertsOneOperation ==
    (UndoSucceeded /\ hist.undone_run >= 1) => entries = hist.pre.entries

\* C2: when exactly one mutating operation has been performed since session
\* start, whatever non-mutating keys preceded it, undo restores the records,
\* the cursor (row, field, column) and the scroll offset to their values just
\* before that operation.
C2_UndoRestoresCursorAndViewport ==
    (UndoSucceeded /\ hist.ops_total = 1 /\ hist.undone_run = 1) => Snapshot(Cur) = hist.pre

\* C3: the undo stack always holds between 1 and 100 snapshots; a push onto a
\* stack of 100 evicts the oldest snapshot; an undo request on a stack of at
\* most one snapshot leaves the stack and the live state unchanged and
\* reports "Nothing to undo".
C3_UndoStackBounded ==
    /\ Len(undo_stack) \in 1..100
    /\ [][/\ Len(undo_stack') \in 1..100
          /\ (Pushes(last_key') /\ Len(undo_stack) = 100)
                => undo_stack' = Tail(undo_stack) \o <<Snapshot(Cur)>>
          /\ (last_key' = "KEY_DC" /\ Len(undo_stack) <= 1)
                => /\ undo_stack' = undo_stack
                   /\ Snapshot(Cur)' = Snapshot(Cur)
                   /\ status_msg' = "Nothing to undo"]_vars

\* a full stack whose oldest snapshot is no longer the one of session start
C3_Witness == Len(undo_stack) = 100 /\ undo_stack[1].cursor_pos = 1

\* C4: for every record and every wrap width, joining the record's rows in
\* order, with one space at each break that consumed a space (the break at
\* the end of the text included), yields the record's text.
C4_RowsRebuildText ==
    \A e \in 0..(Len(entries) - 1) : Rebuild(RowsOf(e), Len(entries[e + 1].text)) = entries[e + 1].text

\* a record of several rows, one break inside a word, one at a consumed
\* space, and a consumed space as the last character
C4_Witness ==
    \E e \in 0..(Len(entries) - 1) :
        LET rows == RowsOf(e)
            n == Len(rows)
        IN  /\ n >= 3
            /\ rows[n][1] + Len(rows[n][2]) + 1 = Len(entries[e + 1].text)
            /\ \E k \in 1..(n - 1) : rows[k + 1][1] = rows[k][1] + Len(rows[k][2])
            /\ \E k \in 1..(n - 1) : rows[k + 1][1] = rows[k][1] + Len(rows[k][2]) + 1

\* C5: after every reflow the rows of each record are strictly ordered by
\* start offset and every offset o in 0..len(text) lies within some row:
\* startOffset <= o <= startOffset + len(row text).
C5_RowsCoverText ==
    \A e \in 0..(Len(entries) - 1) :
        LET rows == RowsOf(e)
        IN  /\ \A k \in 1..(Len(rows) - 1) : rows[k][1] < rows[k + 1][1]
            /\ \A o \in 0..Len(entries[e + 1].text) :
                   \E k \in 1..Len(rows) : rows[k][1] <= o /\ o <= rows[k][1] + Len(rows[k][2])

\* C6: in every reachable state the cursor's row is a valid index of the
\* display table and 0 <= column <= length of the active field at that row.
C6_CursorInBounds ==
    /\ cursor_display_line \in 0..(Len(display_lines) - 1)
    /\ 0 <= cursor_pos
    /\ cursor_pos <= get_current_field_length(Cur)

\* the cursor at the end of a continuation row, and at the end of a speaker
\* of a record other than the first, after keys have been processed
C6_Witness ==
    /\ nkeys >= 2
    /\ cursor_display_line > 0
    /\ cursor_pos > 0
    /\ cursor_pos = get_current_field_length(Cur)
    /\ \/ cursor_field = "speaker"
       \/ CurOffset(Cur) > 0

\* C7: after an insert in the content field at absolute offset a of record r,
\* the cursor is on a row of record r and its row's start offset plus its
\* column equals a + 1.
C7_InsertAdvancesCursor ==
    (last_key \in Printable /\ hist.pre.cursor_field = "content")
        => /\ cursor_field = "content"
           /\ CurEntryIdx(Cur) = PreLine[1]
           /\ CurOffset(Cur) + cursor_pos = PreLine[2] + hist.pre.cursor_pos + 1

\* C8: a split in the content field followed immediately by Backspace yields
\* the record list of before the split, provided the original text is no
\* longer than 3 x content width.
C8_SplitThenBackspace ==
    (/\ last_key = "BACKSPACE"
     /\ hist.after_split
     /\ Len(hist.pre2.entries[Pre2Line[1] + 1].text) <= 3 * content_width)
        => entries = hist.pre2.entries

\* a split inside a text, with a non-empty prefix and suffix, then undone by
\* Backspace
C8_Witness ==
    /\ last_key = "BACKSPACE"
    /\ hist.after_split
    /\ Len(hist.pre.entries) = Len(hist.pre2.entries) + 1
    /\ Pre2Line[2] + hist.pre2.cursor_pos > 0
    /\ Pre2Line[2] + hist.pre2.cursor_pos < Len(hist.pre2.entries[Pre2Line[1] + 1].text)
    /\ entries = hist.pre2.entries

\* C9: moving the first record up, or the last record down, leaves the
\* record list unchanged and sets a status message, whichever row of the
\* record the cursor is on.
C9_MoveAtEdgeKeepsRecords ==
    (\/ last_key = "KEY_PPAGE" /\ PreLine[1] = 0
     \/ last_key = "KEY_NPAGE" /\ PreLine[1] = Len(hist.pre.entries) - 1)
        => /\ entries = hist.pre.entries
           /\ status_msg # ""

\* no two adjacent records that the merge on load would combine
NoCombinablePair(es) == \A i \in 1..(Len(es) - 1) : ~CanCombine(es[i], es[i + 1])

\* what a save in a new session started on the saved file writes
SavedAgain == FileText(EditorInit("f", disk).entries)

\* C10 as stated: saving, reloading the saved file in a new session, then
\* saving again writes the same file as the first save.
C10_SaveReloadSave ==
    status_msg = "File saved." => SavedAgain = disk

\* C10: saving, reloading the saved file in a new session, then saving again
\* writes the same file as the first save, when no two adjacent records
\* satisfy the merge condition of the load.
C10_SaveReloadSaveUnmerged ==
    (status_msg = "File saved." /\ NoCombinablePair(entries)) => SavedAgain = disk

\* a saved list with two adjacent records of one speaker that a bracket
\* keeps apart
C10_Witness ==
    /\ status_msg = "File saved."
    /\ NoCombinablePair(entries)
    /\ \E i \in 1..(Len(entries) - 1) :
           /\ entries[i].speaker = entries[i + 1].speaker
           /\ HasBracket(entries[i].text) \/ HasBracket(entries[i + 1].text)

\* the records of the file on disk, before the merge of the load
Loaded == load_file(disk)

\* a state just after session construction
JustLoaded == last_key = "none"

\* C11: the load-time merge is idempotent: run on its own output it changes
\* nothing, and no adjacent pair of its output satisfies the merge condition.
C11_MergeIdempotent ==
    JustLoaded => /\ combine_same_speaker_entries(entries) = entries
                  /\ NoCombinablePair(entries)

\* a loaded list of several records, some of them made by a merge
C11_Witness ==
    /\ JustLoaded
    /\ Len(entries) >= 2
    /\ Len(entries) < Len(Loaded)

\* the merge as the statement words it: the condition on a pair, and the text
\* of the merged record, with punct the characters after which no space goes
MergesPair(a, b) ==
    /\ a.speaker = b.speaker
    /\ \A k \in 1..Len(a.text) : a.text[k] # "[" /\ a.text[k] # "]"
    /\ \A k \in 1..Len(b.text) : b.text[k] # "[" /\ b.text[k] # "]"
    /\ Len(a.text) + 1 + Len(b.text) <= 150

MergedPair(a, b, punct) ==
    [a EXCEPT !.text = IF a.text # <<>> /\ a.text[Len(a.text)] \notin punct
                       THEN a.text \o <<" ">> \o b.text
                       ELSE a.text \o b.text]

RECURSIVE ExpectedPass(_, _)
ExpectedPass(es, punct) ==
    IF Len(es) < 2 THEN es
    ELSE IF MergesPair(es[1], es[2])
    THEN ExpectedPass(<<MergedPair(es[1], es[2], punct)>> \o SubSeq(es, 3, Len(es)), punct)
    ELSE <<es[1]>> \o ExpectedPass(Tail(es), punct)

\* C16 as stated: the merge joins a and b exactly when the speakers are
\* equal, neither text holds a bracket and len(a) + 1 + len(b) <= 150; the
\* merged text is a + " " + b if a is non-empty and does not end in one of
\* . ! , : ; and a + b otherwise.
C16_MergeResult ==
    JustLoaded => entries = ExpectedPass(Loaded, {".", "!", ",", ":", ";"})

\* C16: the same, with the question mark among the characters after which
\* no space is added: . ! ? , : ;
C16_MergeResultQuestionMark ==
    JustLoaded => entries = ExpectedPass(Loaded, {".", "!", "?", ",", ":", ";"})

\* a text ending in a question mark merged with the next record, and a pair
\* merged at exactly the length limit
C16_Witness ==
    /\ JustLoaded
    /\ \/ /\ Len(Loaded) = 2 /\ Len(entries) = 1
          /\ Loaded[1].text = <<"a", "?">>
          /\ Loaded[2].text = <<"a">>
       \/ /\ Len(Loaded) = 2 /\ Len(entries) = 1
          /\ Len(Loaded[1].text) + 1 + Len(Loaded[2].text) = 150

\* the swap file as an autosave of the current records writes it
SwapWritten == [exists |-> TRUE, text |-> FileText(entries)]

\* C12 as stated: the counter stays in 0..9; a rejected control code is not
\* counted and writes nothing; every other key event is counted, and the
\* tenth counted one writes the swap file and resets the counter to 0.
C12_AutosaveCountsAcceptedKeys ==
    [][/\ keystroke_count' \in 0..9
       /\ IF last_key' = "CTRL"
          THEN keystroke_count' = keystroke_count /\ swap' = swap
          ELSE IF keystroke_count = 9
          THEN keystroke_count' = 0 /\ swap' = SwapWritten
          ELSE keystroke_count' = keystroke_count + 1 /\ swap' = swap]_vars

\* C12: the counter stays in 0..9; every key event, a rejected control code
\* included, is counted, and the tenth one writes the swap file and resets
\* the counter to 0.
C12_AutosaveCountsEveryKey ==
    [][/\ keystroke_count' \in 0..9
       /\ IF keystroke_count = 9
          THEN keystroke_count' = 0 /\ swap' = SwapWritten
          ELSE keystroke_count' = keystroke_count + 1 /\ swap' = swap]_vars

\* an autosave fired by a control code, the counter back at 0
C12_Witness ==
    /\ last_key = "CTRL"
    /\ keystroke_count = 0
    /\ swap.exists
    /\ Len(undo_stack) > 1

\* C13: when loading fails or yields no records, session construction ends
\* without a fatal error: the session holds the records that were loaded
\* (none), a failed load has set a status message, and the program is
\* running, ready for key events.
C13_LoadFailureNotFatal ==
    (JustLoaded /\ filename # NoFile /\ Loaded = <<>>)
        => /\ error = ""
           /\ running
           /\ entries = Loaded
           /\ disk = Unreadable => status_msg # ""

C15_CursorRowVisible ==
    /\ scroll_offset <= cursor_display_line
    /\ cursor_display_line < scroll_offset + max_visible

\* the cursor of ed is on a row of record entry_idx, at offset target_offset
\* of its text
CursorIsAt(ed, entry_idx, target_offset) ==
    /\ CurEntryIdx(ed) = entry_idx
    /\ CurOffset(ed) + ed.cursor_pos = target_offset

\* C17: the cursor mapping is a round trip: for every record, every width and
\* every offset o from 0 to the length of the record's text, resolving
\* (record, o) puts the cursor on a row of that record at a column with
\* row start + column = o.
C17_ResolveRoundTrip ==
    \A e \in 0..(Len(entries) - 1) :
        \A o \in 0..Len(entries[e + 1].text) :
            CursorIsAt(set_cursor_for_content(Cur, e, o), e, o)

\* the operation that key asks for is invalid in the current state
InvalidRequest(key) ==
    \/ key = "KEY_PPAGE" /\ CurEntryIdx(Cur) = 0 /\ CurOffset(Cur) = 0
    \/ key = "KEY_NPAGE" /\ CurEntryIdx(Cur) = Len(entries) - 1 /\ CurOffset(Cur) = 0
    \/ key = "ENTER" /\ cursor_field = "speaker"
    \/ key = "KEY_DC" /\ Len(undo_stack) <= 1

\* C18: a key event that asks for an invalid operation (MoveEntry up on the
\* first record or down on the last, Enter with the cursor in the speaker
\* field, undo with nothing to undo) ends with a non-empty status message
\* and raises no error.
C18_InvalidOperationReported ==
    [][(nkeys' = nkeys + 1 /\ InvalidRequest(last_key'))
           => (status_msg' # "" /\ error' = "" /\ running')]_vars

\* Backspace was pressed in the content field at column 0 of the first row
\* of a record that is not the first
BackspaceAtRecordStart ==
    /\ last_key = "BACKSPACE"
    /\ hist.pre.cursor_field = "content"
    /\ hist.pre.cursor_pos = 0
    /\ PreLine[2] = 0
    /\ PreLine[1] > 0

\* es is before with record i joined onto record i - 1
JoinedAt(es, before, i) ==
    /\ Len(es) = Len(before) - 1
    /\ es[i] = [speaker |-> before[i].speaker, text |-> before[i].text \o before[i + 1].text]
    /\ \A k \in 1..(i - 1) : es[k] = before[k]
    /\ \A k \in (i + 1)..Len(es) : es[k] = before[k + 1]

\* C19: Backspace in the content field at column 0 of the first row of
\* record i > 0: if len(text of i-1) + len(text of i) <= 3 x content width,
\* record i-1 keeps its speaker and gets the two texts concatenated, record i
\* is removed and the later records shift down by one; otherwise the record
\* list and the cursor are unchanged.
C19_BackspaceJoinsWithinLimit ==
    BackspaceAtRecordStart =>
        IF Len(hist.pre.entries[PreLine[1]].text) + Len(hist.pre.entries[PreLine[1] + 1].text)
               <= 3 * content_width
        THEN JoinedAt(entries, hist.pre.entries, PreLine[1])
        ELSE /\ entries = hist.pre.entries
             /\ cursor_display_line = hist.pre.cursor_display_line
             /\ cursor_field = hist.pre.cursor_field
             /\ cursor_pos = hist.pre.cursor_pos

\* a join exactly at the limit, of the middle record of three
C19_Witness ==
    /\ BackspaceAtRecordStart
    /\ Len(hist.pre.entries) = 3
    /\ PreLine[1] = 1
    /\ Len(hist.pre.entries[1].text) + Len(hist.pre.entries[2].text) = 3 * content_width
    /\ Len(entries) = 2

\* a join refused above the limit
C19_WitnessRefused ==
    /\ BackspaceAtRecordStart
    /\ Len(hist.pre.entries[PreLine[1]].text) + Len(hist.pre.entries[PreLine[1] + 1].text)
           > 3 * content_width
    /\ entries = hist.pre.entries

\* es is before with the records at i and j (counted from 0) exchanged
Exchanged(es, before, i, j) ==
    /\ Len(es) = Len(before)
    /\ es[i + 1] = before[j + 1]
    /\ es[j + 1] = before[i + 1]
    /\ \A k \in 1..Len(es) : k \notin {i + 1, j + 1} => es[k] = before[k]

\* the cursor is on the first row, the one of offset 0, of record entry_idx
OnFirstRowOf(entry_idx) ==
    /\ CurEntryIdx(Cur) = entry_idx
    /\ CurOffset(Cur) = 0

MovedUpFromFirstRow ==
    last_key = "KEY_PPAGE" /\ PreLine[2] = 0 /\ PreLine[1] > 0

MovedDownFromFirstRow ==
    last_key = "KEY_NPAGE" /\ PreLine[2] = 0 /\ PreLine[1] < Len(hist.pre.entries) - 1

\* C20: MoveEntry up with the cursor on the first row of record i > 0
\* exchanges records i and i-1 and leaves the others unchanged, and the
\* cursor is afterwards on the first row (offset 0) of the moved record, now
\* at i-1; MoveEntry down on record i < last does the same with i+1.
C20_MoveEntryExchangesNeighbours ==
    /\ MovedUpFromFirstRow =>
           /\ Exchanged(entries, hist.pre.entries, PreLine[1], PreLine[1] - 1)
           /\ OnFirstRowOf(PreLine[1] - 1)
    /\ MovedDownFromFirstRow =>
           /\ Exchanged(entries, hist.pre.entries, PreLine[1], PreLine[1] + 1)
           /\ OnFirstRowOf(PreLine[1] + 1)

\* the middle record of three, of several rows, moved up past a record with
\* another text
C20_Witness ==
    /\ MovedUpFromFirstRow
    /\ PreLine[1] = 1
    /\ Len(entries) = 3
    /\ entries[1].text # entries[2].text
    /\ Len(RowsOf(0)) >= 2
    /\ status_msg = "Moved entry up"

\* the first record of three, of several rows, moved down
C20_WitnessDown ==
    /\ MovedDownFromFirstRow
    /\ PreLine[1] = 0
    /\ Len(entries) = 3
    /\ Len(RowsOf(1)) >= 2
    /\ cursor_display_line > 0
    /\ status_msg = "Moved entry down"

\* the rows above the cursor's row that belong to the cursor's record
PriorRowsOfRecord ==
    {i \in 0..(cursor_display_line - 1) :
        display_lines[i + 1][1] = display_lines[cursor_display_line + 1][1]}

\* C21: the Left key never moves the cursor to another record and never
\* changes a record; at column 0 in the content field it moves to the end
\* column of the nearest prior row of the same record if there is one, and
\* otherwise leaves the cursor where it is.
C21_LeftStaysInRecord ==
    [][(nkeys' = nkeys + 1 /\ last_key' = "KEY_LEFT") =>
          /\ entries' = entries
          /\ display_lines'[cursor_display_line' + 1][1] = display_lines[cursor_display_line + 1][1]
          /\ cursor_field' = cursor_field
          /\ (cursor_pos = 0 /\ cursor_field = "content") =>
                 IF PriorRowsOfRecord # {}
                 THEN /\ cursor_display_line' = SetMax(PriorRowsOfRecord)
                      /\ cursor_pos' = Len(display_lines[SetMax(PriorRowsOfRecord) + 1][3])
                 ELSE /\ cursor_display_line' = cursor_display_line
                      /\ cursor_pos' = cursor_pos]_vars

\* Left has taken the cursor from column 0 of a continuation row to the end
\* of the row above, in a record that is not the first
C21_Witness ==
    /\ last_key = "KEY_LEFT"
    /\ cursor_field = "content"
    /\ cursor_pos > 0
    /\ cursor_pos = Len(display_lines[cursor_display_line + 1][3])
    /\ cursor_display_line + 1 < Len(display_lines)
    /\ display_lines[cursor_display_line + 2][1] = display_lines[cursor_display_line + 1][1]
    /\ display_lines[cursor_display_line + 1][1] > 0

\* C22: reflow terminates for every record and every content width the
\* terminal can produce, zero and negative ones included: the construction
\* of the session completes and the session waits for its first key event.
C22_ReflowTerminates == <>(wrap_call.pc = "idle")

\* C23: the merge pass runs only during session construction: the flag
\* that enables it is clear at every key event and stays clear, and no key
\* event lowers the number of records except Backspace and undo, each by
\* what it removes itself (Backspace at most one record).
C23_MergeOnlyAtConstruction ==
    [][(nkeys' = nkeys + 1) =>
          /\ ~initial_load
          /\ ~initial_load'
          /\ Len(entries') < Len(entries) => last_key' \in {"BACKSPACE", "KEY_DC"}
          /\ last_key' = "BACKSPACE" => Len(entries') >= Len(entries) - 1]_vars

\* a character typed right after a split: reflow has run on two adjacent
\* records that the merge pass would join, and they are still two
C23_Witness ==
    /\ last_key \in Printable
    /\ hist.after_split
    /\ ~NoCombinablePair(entries)
    /\ Len(entries) = Len(hist.pre.entries)

\* the latest key typed a character with the cursor at the end of the text
\* of its record, in the content field
TypedAtEnd ==
    /\ last_key \in Printable
    /\ hist.pre.cursor_field = "content"
    /\ PreLine[2] + hist.pre.cursor_pos = Len(hist.pre.entries[PreLine[1] + 1].text)

\* C24: with the cursor at the end of a record's text in the content field,
\* characters typed one after another, spaces included, are appended to the
\* text in the order typed, at every width: after the first the text is the
\* original followed by it, and after the next one the original followed by
\* both.
C24_TypingAppendsInOrder ==
    [][TypedAtEnd =>
          /\ entries[PreLine[1] + 1].text =
                 hist.pre.entries[PreLine[1] + 1].text \o <<last_key>>
          /\ (nkeys' = nkeys + 1 /\ last_key' \in Printable) =>
                 entries'[PreLine[1] + 1].text =
                     hist.pre.entries[PreLine[1] + 1].text \o <<last_key, last_key'>>]_vars

\* C25: for every text and every width w >= 1, every row that wrap produces
\* is at most min(w, 50) characters long, and every row of a non-empty text
\* is non-empty.
C25_RowsWithinCap ==
    \A i \in 1..Len(display_lines) :
        /\ Len(display_lines[i][3]) <= Min(content_width, 50)
        /\ entries[display_lines[i][1] + 1].text # <<>> => display_lines[i][3] # <<>>

\* in a terminal wider than the cap, a text of three rows: two of 50
\* characters, the first ended by a break inside a word
C25_Witness ==
    /\ content_width > 50
    /\ Len(display_lines) >= 3
    /\ display_lines[3][1] = 0
    /\ Len(display_lines[1][3]) = 50
    /\ Len(display_lines[2][3]) = 50
    /\ display_lines[2][2] = 50

\* at a narrow width, a row that starts after a consumed space and a text
\* that starts with a space
C25_WitnessNarrow ==
    /\ content_width < 50
    /\ Len(display_lines) >= 2
    /\ display_lines[2][1] = 0
    /\ display_lines[2][2] = Len(display_lines[1][3]) + 1
    /\ entries[1].text[1] = " "

====
